---- MODULE Spec2Model ----
(***************************************************************************)
(* Feature-flag resolution and conditional route mounting of the          *)
(* trunk-based demo API: FeatureFlagService (api/featureFlags.js) and the  *)
(* Express host that uses it (api/server.js), and the two flag managers of *)
(* the web client (feature-flags.js, js/featureFlagManager.js).            *)
(*                                                                         *)
(* JavaScript values are encoded as records of strings so that values of   *)
(* different JavaScript types stay comparable: a boolean true is "true",   *)
(* a missing field is "undefined", a non-boolean such as the YAML string   *)
(* yes-in-quotes is "'yes'".                                               *)
(***************************************************************************)
EXTENDS Integers, Sequences, FiniteSets, TLC

----------------------------------------------------------------------------
(* Bounds of the model *)

\* how many flags of one manifest file may carry an irregular record (no
\* record, a null record, a non-boolean or missing enabled field)
MaxIrregular == 1

\* requests of the task client that may be awaiting their response at once
MaxInFlight == 2

\* the task store is followed until its nextId reaches this value
MaxNextId == 4

----------------------------------------------------------------------------
(* Flag names and flag records *)

\* the two capabilities server.js mounts
Capabilities == <<"advanced_search", "export_csv">>

CapabilityNames == {Capabilities[i] : i \in 1..Len(Capabilities)}

\* property names every JavaScript object inherits from Object.prototype
ObjectPrototypeNames == {"constructor"}

\* names a caller may query; no manifest defines ghost_feature or constructor
FlagNames == CapabilityNames \cup {"ghost_feature"} \cup ObjectPrototypeNames

\* features[n] when the manifest has no key n (JavaScript undefined)
Absent == [kind |-> "absent", enabled |-> "undefined", status |-> "undefined"]

\* features[n] when the YAML gives the key no value (JavaScript null)
NullRec == [kind |-> "null", enabled |-> "undefined", status |-> "undefined"]

\* features[n] when n is not a key of the manifest but is a property that
\* the features object inherits (a function of Object.prototype: truthy,
\* without an enabled field)
Inherited == [kind |-> "inherited", enabled |-> "undefined", status |-> "undefined"]

FlagRecord(e, s) == [kind |-> "object", enabled |-> e, status |-> s]

\* the records a manifest file may hold under one name: none, null, enabled
\* true, enabled false, enabled a non-boolean (a record without an enabled
\* field takes the same branches as the non-boolean one: undefined === true
\* and 'yes' === true are both false)
RecordShapes ==
    {Absent, NullRec,
     FlagRecord("true", "live"), FlagRecord("false", "in_development"),
     FlagRecord("'yes'", "live")}

----------------------------------------------------------------------------
(* Manifest documents: what fs.readFileSync + yaml.load make of a file *)

NoFeatures == [n \in FlagNames |-> Absent]

\* a parsed document; hasFeatures is FALSE when the features key is missing
\* or null (both are falsy in JavaScript); environment is the value of the
\* document's own environment key
Document(hasF, f) ==
    [kind |-> "object", hasFeatures |-> hasF, features |-> f,
     environment |-> "undefined"]

\* the file does not exist: readFileSync throws
MissingFile ==
    [kind |-> "missing", hasFeatures |-> FALSE, features |-> NoFeatures,
     environment |-> "undefined"]

\* the file is not YAML: yaml.load throws
UnparsableFile ==
    [kind |-> "unparsable", hasFeatures |-> FALSE, features |-> NoFeatures,
     environment |-> "undefined"]

\* the file is empty: yaml.load returns undefined
EmptyFile ==
    [kind |-> "null", hasFeatures |-> FALSE, features |-> NoFeatures,
     environment |-> "undefined"]

\* this.config before loadConfiguration has run (constructor, line 20)
NullConfig ==
    [kind |-> "null", hasFeatures |-> FALSE, features |-> NoFeatures,
     environment |-> "undefined"]

\* the fail-safe configuration { features: {} } of the catch block
EmptyConfig == Document(TRUE, NoFeatures)

\* records whose enabled field is a boolean
Regular(r) == r.kind = "object" /\ r.enabled \in {"true", "false"}

FeatureMaps ==
    {f \in [FlagNames -> RecordShapes] :
        /\ \A n \in FlagNames \ CapabilityNames : f[n] = Absent
        /\ \/ Cardinality({n \in CapabilityNames : ~Regular(f[n])}) <= MaxIrregular
           \/ f = NoFeatures}

\* config/features.stage.yml as shipped: all features on
StageManifest ==
    [Document(TRUE, [n \in FlagNames |->
        IF n \in CapabilityNames THEN FlagRecord("true", "live") ELSE Absent])
     EXCEPT !.environment = "stage"]

\* config/features.prod.yml as shipped: export_csv on, advanced_search off
ProdManifest ==
    [Document(TRUE, [n \in FlagNames |->
        CASE n = "advanced_search" -> FlagRecord("false", "in_development")
          [] n = "export_csv" -> FlagRecord("true", "live")
          [] OTHER -> Absent])
     EXCEPT !.environment = "production"]

\* every content a manifest file may have: broken, empty, without features,
\* with any feature map and no environment key, or a copy of a shipped file
\* with its environment key.  A document that is a YAML scalar or list, or
\* whose features value is one, takes the branches of the document without
\* features (no flag is found in it) and is not listed.
Documents ==
    {MissingFile, UnparsableFile, EmptyFile, Document(FALSE, NoFeatures)}
        \cup {Document(TRUE, f) : f \in FeatureMaps}
        \cup {StageManifest, ProdManifest}

FileNames == {"features.stage.yml", "features.prod.yml"}

----------------------------------------------------------------------------
(* FeatureFlagService *)

\* the file loadConfiguration reads for an environment
configFileName(environment) ==
    IF environment = "stage" THEN "features.stage.yml" ELSE "features.prod.yml"

\* loadConfiguration with a catch block that falls back to built-in defaults
\* that switch every capability on
loadConfiguration_FailOpen(environment, files) ==
    LET doc == files[configFileName(environment)]
    IN  IF doc.kind \in {"missing", "unparsable", "null"}
        THEN StageManifest
        ELSE doc

\* loadConfiguration whose log line reads this.config?.features, so that an
\* empty document no longer reaches the catch block
loadConfiguration_OptionalChaining(environment, files) ==
    LET doc == files[configFileName(environment)]
    IN  IF doc.kind \in {"missing", "unparsable"}
        THEN EmptyConfig
        ELSE doc

\* loadConfiguration that validates the parsed records and treats a record
\* whose enabled field is not a boolean as a failed load
loadConfiguration_Validating(environment, files) ==
    LET doc == files[configFileName(environment)]
    IN  IF doc.kind \in {"missing", "unparsable", "null"}
        THEN EmptyConfig
        ELSE IF \E n \in DOMAIN doc.features :
                    doc.features[n].kind = "object" /\ ~Regular(doc.features[n])
             THEN EmptyConfig
             ELSE doc

\* loadConfiguration: the value of this.config when it returns.  A read or
\* parse error, or the TypeError of this.config.features on an empty
\* document, lands in the catch block.
loadConfiguration(environment, files) ==
    LET doc == files[configFileName(environment)]
    IN  IF doc.kind \in {"missing", "unparsable", "null"}
        THEN EmptyConfig
        ELSE doc

\* !this.config || !this.config.features
NotLoaded(config) == config.kind = "null" \/ ~config.hasFeatures

\* !feature : undefined and null are falsy
Falsy(feature) == feature.kind \in {"absent", "null"}

\* features[featureName] : the manifest's own record under the name, else
\* what the object inherits under it, else undefined
Lookup(features, featureName) ==
    IF features[featureName].kind # "absent" THEN features[featureName]
    ELSE IF featureName \in ObjectPrototypeNames THEN Inherited
         ELSE Absent

\* isEnabled testing feature.enabled for truthiness instead of === true
isEnabled_Truthy(config, featureName) ==
    IF NotLoaded(config) THEN FALSE
    ELSE LET feature == Lookup(config.features, featureName)
         IN  IF Falsy(feature) THEN FALSE
             ELSE feature.enabled \notin {"false", "undefined"}

\* isEnabled that also wants the record's lifecycle tag to be live
isEnabled_LiveOnly(config, featureName) ==
    IF NotLoaded(config) THEN FALSE
    ELSE LET feature == Lookup(config.features, featureName)
         IN  IF Falsy(feature) THEN FALSE
             ELSE feature.enabled = "true" /\ feature.status = "live"

isEnabled(config, featureName) ==
    IF NotLoaded(config) THEN FALSE
    ELSE LET feature == Lookup(config.features, featureName)
         IN  IF Falsy(feature) THEN FALSE
             ELSE feature.enabled = "true"

\* this.config.features[featureName] || null
getFeatureInfo(config, featureName) ==
    IF NotLoaded(config) THEN NullRec
    ELSE LET feature == Lookup(config.features, featureName)
         IN  IF Falsy(feature) THEN NullRec ELSE feature

\* Object.keys(features)
Keys(features) == {n \in DOMAIN features : features[n].kind # "absent"}

getAllFeatures(config) ==
    IF NotLoaded(config) THEN NoFeatures ELSE config.features

\* Object.keys(...).filter(key => features[key].enabled === true); reading
\* .enabled of a null record throws a TypeError
getEnabledFeatures(config) ==
    IF NotLoaded(config) THEN [throws |-> FALSE, value |-> {}]
    ELSE IF \E key \in Keys(config.features) : config.features[key].kind = "null"
         THEN [throws |-> TRUE, value |-> {}]
         ELSE [throws |-> FALSE,
               value |-> {key \in Keys(config.features) :
                             config.features[key].enabled = "true"}]

\* getEnvironment(): this.environment
getEnvironment(environment) == environment

\* this.config || { features: {} }
getConfig(config) == IF config.kind = "null" THEN EmptyConfig ELSE config

VARIABLES
    routeFiles    \* what api/routes/<name>.js is, for each name: "router" (a
                  \* module exporting a router), "missing" (no such file) or
                  \* "throws" (a file that fails when required)

\* api/routes as the repository ships it
ShippedRoutes ==
    [n \in FlagNames |-> IF n \in CapabilityNames THEN "router" ELSE "missing"]

\* every state of api/routes: the file of a capability may also be missing
\* or broken
RouteFileSets ==
    {r \in [FlagNames -> {"router", "missing", "throws"}] :
        \A n \in FlagNames \ CapabilityNames : r[n] = "missing"}

\* api/routes/<name>.js exists and exports a router
RouteModules == {n \in FlagNames : routeFiles[n] = "router"}

\* getFeatureRouter without the isEnabled guard
getFeatureRouter_Ungated(config, featureName) ==
    IF featureName \notin RouteModules THEN "null" ELSE featureName

\* getFeatureRouter that answers with a stub router when the route file of
\* an enabled feature does not exist
getFeatureRouter_StubWhenMissing(config, featureName) ==
    IF ~isEnabled(config, featureName) THEN "null"
    ELSE IF routeFiles[featureName] = "missing" THEN featureName
    ELSE IF routeFiles[featureName] = "throws" THEN "null"
         ELSE featureName

\* the router getFeatureRouter returns, "null" when it returns null: for a
\* disabled feature, when fs.existsSync finds no route file, and when
\* require throws (caught)
getFeatureRouter(config, featureName) ==
    IF ~isEnabled(config, featureName) THEN "null"
    ELSE IF routeFiles[featureName] = "missing" THEN "null"
    ELSE IF routeFiles[featureName] = "throws" THEN "null"
         ELSE featureName

----------------------------------------------------------------------------
(* The Express routing stack *)

\* is sequence p a prefix of sequence q
IsPrefix(p, q) == Len(p) <= Len(q) /\ SubSeq(q, 1, Len(p)) = p

\* the path left for a router mounted at prefix
StripPrefix(prefix, path) == SubSeq(path, Len(prefix) + 1, Len(path))

\* does a route pattern match a path; a :id segment matches any segment
MatchPattern(pattern, path) ==
    /\ Len(pattern) = Len(path)
    /\ \A i \in 1..Len(pattern) : pattern[i] = ":id" \/ pattern[i] = path[i]

\* the routes each router module defines, relative to its mount point
RouterRoutes(group) ==
    CASE group = "tasks" ->
            {[method |-> "GET", pattern |-> <<>>],
             [method |-> "GET", pattern |-> <<":id">>],
             [method |-> "POST", pattern |-> <<>>],
             [method |-> "PUT", pattern |-> <<":id">>],
             [method |-> "DELETE", pattern |-> <<":id">>]}
      [] group = "export_csv" ->
            {[method |-> "GET", pattern |-> <<"csv">>],
             [method |-> "POST", pattern |-> <<"csv">>],
             [method |-> "GET", pattern |-> <<"preview">>]}
      [] group = "advanced_search" ->
            {[method |-> "POST", pattern |-> <<>>],
             [method |-> "GET", pattern |-> <<"facets">>]}
      [] OTHER -> {}

\* app.get / app.post : answers one method on one exact path
RouteLayer(method, path, handler) ==
    [kind |-> "route", method |-> method, path |-> path, handler |-> handler]

\* app.use(prefix, router) : hands every request under prefix to the router
UseLayer(prefix, group) ==
    [kind |-> "use", method |-> "ALL", path |-> prefix, handler |-> group]

\* app.use((req, res) => res.status(404)...) : answers everything
FallbackLayer ==
    [kind |-> "fallback", method |-> "ALL", path |-> <<>>, handler |-> "notfound"]

\* does the layer answer the request, or pass it on with next()
Answers(layer, req) ==
    CASE layer.kind = "route" ->
            layer.method = req.method /\ layer.path = req.path
      [] layer.kind = "use" ->
            /\ IsPrefix(layer.path, req.path)
            /\ \E r \in RouterRoutes(layer.handler) :
                  /\ r.method = req.method
                  /\ MatchPattern(r.pattern, StripPrefix(layer.path, req.path))
      [] OTHER -> TRUE

\* is the request handed to the layer's router at all
Enters(layer, req) == layer.kind = "use" /\ IsPrefix(layer.path, req.path)

\* the handler that answers a request: the first layer of the stack, in
\* registration order, that answers it; Express's own final handler when
\* no layer does
Dispatch(stack, req) ==
    LET hits == {i \in 1..Len(stack) : Answers(stack[i], req)}
    IN  IF hits = {} THEN "finalhandler"
        ELSE LET first == CHOOSE i \in hits : \A j \in hits : i <= j
             IN  stack[first].handler

\* the capabilities bound into the stack
Mounted(stack) ==
    {stack[i].handler : i \in {j \in 1..Len(stack) : stack[j].kind = "use"}}
        \cap CapabilityNames

\* the prefixes bound to capability routers
BoundPrefixes(stack) ==
    {stack[i].path : i \in {j \in 1..Len(stack) :
        stack[j].kind = "use" /\ stack[j].handler \in CapabilityNames}}

\* server.js without the line that mounts the base task router
CoreStack_WithoutTasks ==
    << RouteLayer("GET", <<"api", "health">>, "health"),
       RouteLayer("GET", <<"api", "feature-flags">>, "feature-flags"),
       RouteLayer("POST", <<"api", "feature-flags", "reload">>, "reload") >>

\* core routes and the base task router, server.js before the mount pass
CoreStack ==
    << RouteLayer("GET", <<"api", "health">>, "health"),
       RouteLayer("GET", <<"api", "feature-flags">>, "feature-flags"),
       RouteLayer("POST", <<"api", "feature-flags", "reload">>, "reload"),
       UseLayer(<<"api", "tasks">>, "tasks") >>

\* the prefix server.js binds each capability at
PathPrefix ==
    [c \in CapabilityNames |->
        IF c = "advanced_search" THEN <<"api", "search">> ELSE <<"api", "export">>]

\* the requests clients send
Requests ==
    {[method |-> "GET", path |-> <<"api", "health">>],
     [method |-> "GET", path |-> <<"api", "feature-flags">>],
     [method |-> "POST", path |-> <<"api", "feature-flags", "reload">>],
     [method |-> "DELETE", path |-> <<"api", "tasks", "1">>],
     [method |-> "POST", path |-> <<"api", "search">>],
     [method |-> "GET", path |-> <<"api", "search", "facets">>],
     [method |-> "GET", path |-> <<"api", "export", "csv">>],
     [method |-> "GET", path |-> <<"api", "unknown">>]}

----------------------------------------------------------------------------
(* The mount strategy of server.js *)

\* a mount step written as an else-if chain: only the first enabled
\* capability is bound
MountOne_ElseIf(stack, config, name, prefix) ==
    LET router == getFeatureRouter(config, name)
    IN  IF router # "null" /\ Mounted(stack) = {}
        THEN Append(stack, UseLayer(prefix, router))
        ELSE stack

\* a mount step that skips a capability whose prefix is already bound
MountOne_SkipBoundPrefix(stack, config, name, prefix) ==
    LET router == getFeatureRouter(config, name)
    IN  IF router # "null" /\ prefix \notin BoundPrefixes(stack)
        THEN Append(stack, UseLayer(prefix, router))
        ELSE stack

\* a mount step in which export_csv is bound only when advanced_search is
\* enabled as well
MountOne_ExportNeedsSearch(stack, config, name, prefix) ==
    LET router == getFeatureRouter(config, name)
    IN  IF /\ router # "null"
           /\ name = "export_csv" => isEnabled(config, "advanced_search")
        THEN Append(stack, UseLayer(prefix, router))
        ELSE stack

\* const router = featureFlags.getFeatureRouter(name);
\* if (router) app.use(prefix, router);
MountOne(stack, config, name, prefix) ==
    LET router == getFeatureRouter(config, name)
    IN  IF router # "null" THEN Append(stack, UseLayer(prefix, router)) ELSE stack

\* the mount pass over a list of capabilities, in the order given
RECURSIVE MountAll(_, _, _, _)
MountAll(stack, config, order, prefixes) ==
    IF order = <<>> THEN stack
    ELSE MountAll(MountOne(stack, config, Head(order), prefixes[Head(order)]),
                  config, Tail(order), prefixes)

----------------------------------------------------------------------------
(* The web page: config/features.json and the two client flag managers    *)

\* the body of an HTTP response: text that is not JSON, JSON null, a JSON
\* object without features, a JSON object with a features map
Bodies == Documents \ {MissingFile}

Rejected == [kind |-> "rejected", ok |-> FALSE, body |-> UnparsableFile]

Response(ok, body) == [kind |-> "response", ok |-> ok, body |-> body]

\* every outcome of fetch('config/features.json'): the promise rejects
\* (network failure), or resolves to a response of any status and body
Fetches == {Rejected} \cup {Response(ok, body) : ok \in BOOLEAN, body \in Bodies}

\* directories of window.location.pathname
Pathnames == {<<>>, <<"stage">>, <<"production">>}

\* path.includes('/stage/') and path.includes('/production/')
Includes(path, dir) == \E i \in 1..Len(path) : path[i] = dir

\* a JavaScript boolean as the model writes JavaScript values
JsBool(b) == IF b THEN "true" ELSE "false"

\* the values JavaScript treats as false in a condition
FalsyValue(v) == v \in {"false", "undefined"}

\* the tags the page's elements carry in data-feature
Tags == FlagNames

\* an element as the page is delivered: shown, no marker class
PlainElement == [display |-> "", classes |-> {}]

(* window.featureFlags : FeatureFlagManager of feature-flags.js *)

\* constructor: features = {}, environment = 'production', loaded = false
NewWindowFlags ==
    [features |-> NoFeatures, environment |-> "production", loaded |-> FALSE,
     phase |-> "constructed", threw |-> FALSE]

\* the environment init() detects from the URL
detectEnvironment(path) ==
    IF Includes(path, "stage") THEN "stage"
    ELSE IF Includes(path, "production") THEN "production"
         ELSE "production"

\* init() that reads the body of the response whatever its status
window_init_NoOkCheck(manager, path, fetched) ==
    LET env == detectEnvironment(path)
        failed == [manager EXCEPT !.features = NoFeatures, !.environment = env,
                                  !.phase = "initialised", !.threw = FALSE]
    IN  IF fetched.kind = "rejected" THEN failed
        ELSE IF fetched.body.kind \in {"unparsable", "null"} THEN failed
        ELSE LET features == IF fetched.body.hasFeatures
                             THEN fetched.body.features ELSE NoFeatures
             IN  IF \E k \in Keys(features) : features[k].kind = "null"
                 THEN [failed EXCEPT !.loaded = TRUE]
                 ELSE [failed EXCEPT !.features = features, !.loaded = TRUE]

\* init(): the manager when the promise settles.  Everything that can throw
\* (fetch, response.json(), config.features on a null body, the filter of
\* the log line on a null record) is inside the try block, whose catch
\* assigns features = {}.
window_init(manager, path, fetched) ==
    LET env == detectEnvironment(path)
        failed == [manager EXCEPT !.features = NoFeatures, !.environment = env,
                                  !.phase = "initialised", !.threw = FALSE]
    IN  IF fetched.kind = "rejected" THEN failed
        ELSE IF ~fetched.ok THEN failed
        ELSE IF fetched.body.kind \in {"unparsable", "null"} THEN failed
        ELSE LET features == IF fetched.body.hasFeatures
                             THEN fetched.body.features ELSE NoFeatures
             IN  IF \E k \in Keys(features) : features[k].kind = "null"
                 THEN [failed EXCEPT !.loaded = TRUE]
                 ELSE [failed EXCEPT !.features = features, !.loaded = TRUE]

\* isEnabled of the page's manager
window_isEnabled(features, featureName) ==
    LET feature == Lookup(features, featureName)
    IN  IF Falsy(feature) THEN FALSE ELSE feature.enabled = "true"

\* Object.keys(features).filter(key => features[key].enabled)
window_getEnabledFeatures(features) ==
    IF \E key \in Keys(features) : features[key].kind = "null"
    THEN [throws |-> TRUE, value |-> {}]
    ELSE [throws |-> FALSE,
          value |-> {key \in Keys(features) : ~FalsyValue(features[key].enabled)}]

\* features[featureName] || null
window_getFeatureInfo(features, featureName) ==
    LET feature == Lookup(features, featureName)
    IN  IF Falsy(feature) THEN NullRec ELSE feature

\* a sweep that shows every element whose tag has a record, whatever the
\* record's enabled value
applyFeatureFlags_ByRecord(features, elements) ==
    [tag \in DOMAIN elements |->
        IF ~Falsy(Lookup(features, tag))
        THEN [display |-> "",
              classes |-> elements[tag].classes \cup {"feature-enabled"}]
        ELSE [display |-> "none",
              classes |-> elements[tag].classes \cup {"feature-disabled"}]]

\* applyFeatureFlags(): every tagged element is shown or hidden by isEnabled
\* of its tag and gets the marker class added
applyFeatureFlags(features, elements) ==
    [tag \in DOMAIN elements |->
        IF window_isEnabled(features, tag)
        THEN [display |-> "",
              classes |-> elements[tag].classes \cup {"feature-enabled"}]
        ELSE [display |-> "none",
              classes |-> elements[tag].classes \cup {"feature-disabled"}]]

(* App.featureFlags : FeatureFlagManager of the js/ modules *)

\* constructor: flags = { features: {} }, loaded = false
NewAppFlags ==
    [flags |-> EmptyConfig, loaded |-> FALSE, phase |-> "constructed",
     threw |-> FALSE]

\* the fallback of load(): production with both capabilities off
FallbackFlags ==
    [Document(TRUE, [n \in FlagNames |->
        IF n \in CapabilityNames THEN FlagRecord("false", "undefined") ELSE Absent])
     EXCEPT !.environment = "production"]

\* load(): the manager when the promise settles, threw when it rejects.
\* The status of the response is not looked at: response.json() is what
\* fails or succeeds, and whatever JSON value it yields becomes flags.
app_load(manager, fetched) ==
    IF fetched.kind = "rejected" \/ fetched.body.kind = "unparsable"
    THEN [manager EXCEPT !.flags = FallbackFlags, !.phase = "loaded",
                         !.threw = TRUE]
    ELSE [manager EXCEPT !.flags = fetched.body, !.loaded = TRUE,
                         !.phase = "loaded", !.threw = FALSE]

\* this.flags.features?.[featureName]?.enabled || false : reading .features
\* of a null flags throws; a truthy enabled is returned as it is
app_isEnabled(flags, featureName) ==
    IF flags.kind = "null" THEN [throws |-> TRUE, value |-> "undefined"]
    ELSE IF ~flags.hasFeatures THEN [throws |-> FALSE, value |-> "false"]
    ELSE LET feature == Lookup(flags.features, featureName)
         IN  [throws |-> FALSE,
              value |-> IF FalsyValue(feature.enabled) THEN "false"
                        ELSE feature.enabled]

\* this.flags.features?.[featureName] || null
app_getFeature(flags, featureName) ==
    IF flags.kind = "null" THEN [throws |-> TRUE, value |-> NullRec]
    ELSE IF ~flags.hasFeatures THEN [throws |-> FALSE, value |-> NullRec]
    ELSE LET feature == Lookup(flags.features, featureName)
         IN  [throws |-> FALSE,
              value |-> IF Falsy(feature) THEN NullRec ELSE feature]

\* Object.keys(this.flags.features).filter(key => ....enabled === true)
app_getEnabledFeatures(flags) ==
    IF flags.kind = "null" THEN [throws |-> TRUE, value |-> {}]
    ELSE IF ~flags.hasFeatures THEN [throws |-> FALSE, value |-> {}]
    ELSE IF \E key \in Keys(flags.features) : flags.features[key].kind = "null"
         THEN [throws |-> TRUE, value |-> {}]
         ELSE [throws |-> FALSE,
               value |-> {key \in Keys(flags.features) :
                             flags.features[key].enabled = "true"}]

\* this.flags.environment || 'production' : throws on a null flags
app_getEnvironment(flags) ==
    IF flags.kind = "null" THEN [throws |-> TRUE, value |-> "undefined"]
    ELSE [throws |-> FALSE,
          value |-> IF flags.environment = "undefined" THEN "production"
                    ELSE flags.environment]

(* TaskService of js/taskService.js *)

\* constructor: tasks = [], apiAvailable = false
NewTaskService == [tasks |-> "none", apiAvailable |-> FALSE]

\* how a GET /api/tasks can end: fetch rejects, the body is not JSON, the
\* body is the JSON value null, a JSON object without tasks (an error
\* answer), a JSON object with tasks
TaskFetches == {"rejected", "unparsable", "null", "no tasks", "tasks"}

\* the outcomes that throw inside the try block of loadTasks
Thrown(fetched) == fetched \in {"rejected", "unparsable", "null"}

\* loadTasks() whose catch block leaves apiAvailable as it was
loadTasks_KeepsAvailable(service, fetched) ==
    IF Thrown(fetched)
    THEN [service |-> [service EXCEPT !.tasks = "demo"], isDemo |-> TRUE]
    ELSE [service |-> [tasks |-> IF fetched = "tasks" THEN "api" ELSE "empty",
                       apiAvailable |-> TRUE],
          isDemo |-> FALSE]

\* loadTasks() when its fetch has settled: the service afterwards and the
\* isDemo it returns
loadTasks(service, fetched) ==
    IF Thrown(fetched)
    THEN [service |-> [tasks |-> "demo", apiAvailable |-> FALSE], isDemo |-> TRUE]
    ELSE [service |-> [tasks |-> IF fetched = "tasks" THEN "api" ELSE "empty",
                       apiAvailable |-> TRUE],
          isDemo |-> FALSE]

\* the titles a caller passes
Titles == {"", "Write docs"}

\* addTask() up to its fetch: throws on an empty title, throws when the API
\* is not available, otherwise the POST is sent
addTask(service, title) ==
    IF title = "" THEN [throws |-> TRUE, sent |-> FALSE]
    ELSE IF ~service.apiAvailable THEN [throws |-> TRUE, sent |-> FALSE]
    ELSE [throws |-> FALSE, sent |-> TRUE]

(* UIManager *)

MarkerClasses == {"feature-enabled", "feature-disabled"}

\* updateFeatureSection(): the class list of the section afterwards; the
\* test is feature && feature.enabled
updateFeatureSection(classes, feature) ==
    IF ~Falsy(feature) /\ ~FalsyValue(feature.enabled)
    THEN (classes \cup {"feature-enabled"}) \ {"feature-disabled"}
    ELSE (classes \cup {"feature-disabled"}) \ {"feature-enabled"}

----------------------------------------------------------------------------
(* State *)

VARIABLES
    nodeEnv,      \* process.env.NODE_ENV, "unset" when not set
    files,        \* content of each manifest file under config/
    pc,           \* where the host process is on its startup path
    environment,  \* FeatureFlagService.environment
    config,       \* FeatureFlagService.config
    stack,        \* the Express app's layers, in registration order
    toMount,      \* capabilities the mount pass has still to evaluate
    prefixOf,     \* the path prefix each capability is bound at
    flagAtMount,  \* what isEnabled answered when the mount pass asked
    last          \* the last operation performed and what it returned; for a
                  \* reload that directly follows a reload, also the
                  \* configuration held before it

VARIABLES
    published,    \* what a fetch of config/features.json yields
    pathname,     \* window.location.pathname of the page
    windowFlags,  \* window.featureFlags, the page's global FeatureFlagManager
    dom,          \* the elements tagged data-feature, by tag
    appFlags      \* App.featureFlags, the module client's FeatureFlagManager

VARIABLES
    call,         \* the last capability handler of App that ran, the flags it
                  \* saw and the request it issued
    sections      \* class list of the search and export sections of the page

VARIABLES
    db,           \* content of db.json: the tasks and nextId
    deleted,      \* ids of the tasks DELETE has removed
    reply         \* the last request on /api/tasks, its status and the store
                  \* it found

VARIABLES
    taskService,  \* App.taskService
    loading,      \* loadTasks() calls whose fetch has not settled
    posting,      \* POSTs of App.addTask whose response has not arrived
    completed,    \* how the loadTasks() that completed last ended
    post          \* the last addTask() call and whether it sent a POST

vars == <<nodeEnv, files, pc, environment, config, stack, toMount, prefixOf, routeFiles,
          flagAtMount, last, published, pathname, windowFlags, dom, appFlags,
          call, sections, taskService, loading, posting, completed, post,
          db, deleted, reply>>

\* the task store and what is remembered of the requests on it
store == <<db, deleted, reply>>

\* db.json with no task yet and no request made
StoreIdle ==
    /\ db = [tasks |-> <<>>, nextId |-> 1]
    /\ deleted = {}
    /\ reply = [op |-> "none", id |-> 0, status |-> 0, before |-> db]

service == <<environment, config>>
host == <<nodeEnv, pc, stack, toMount, prefixOf, routeFiles, flagAtMount>>

\* everything that lives in the web page rather than in the API process
page == <<published, pathname, windowFlags, dom, appFlags, call, sections,
          taskService, loading, posting, completed, post>>

\* the part of the App controller that talks to /api/tasks
taskClient == <<taskService, loading, posting, completed, post>>

NoPost == [op |-> "none", title |-> "", sent |-> FALSE, after |-> "none"]

\* state of the App controller beyond its flag manager
client == <<call, sections>>

\* no capability handler has run
NoCall == [op |-> "none", flags |-> EmptyConfig, request |-> "none", threw |-> FALSE]

\* the App controller as constructed, the sections as the page's markup
\* has them
ClientIdle ==
    /\ call = NoCall
    /\ sections = [c \in CapabilityNames |-> {}]
    /\ taskService = NewTaskService
    /\ loading = 0
    /\ posting = 0
    /\ completed = "none"
    /\ post = NoPost

NoRequest == [method |-> "none", path |-> <<>>]

\* an operation record with nothing filled in
Event(op) ==
    [op |-> op, arg |-> "", req |-> NoRequest, handler |-> "", status |-> 0,
     answer |-> FALSE, info |-> NullRec, names |-> {}, throws |-> FALSE,
     body |-> NullConfig, again |-> FALSE, before |-> NullConfig,
     env |-> "", text |-> ""]

\* values of NODE_ENV: not set, the two the README names, and one it does
\* not name
NodeEnvs == {"unset", "stage", "production", "development"}

ShippedFiles ==
    [f \in FileNames |->
        IF f = "features.stage.yml" THEN StageManifest ELSE ProdManifest]

\* the manifest file the started process loads
LoadedFile == configFileName(IF nodeEnv = "unset" THEN "stage" ELSE nodeEnv)

\* the page is not part of the run: nothing is published, both managers are
\* as constructed
PageIdle ==
    /\ published = Rejected
    /\ pathname = <<>>
    /\ windowFlags = NewWindowFlags
    /\ dom = [tag \in Tags |-> PlainElement]
    /\ appFlags = NewAppFlags
    /\ ClientIdle

\* the process is started as the README shows: npm start (NODE_ENV unset)
\* or NODE_ENV=production npm start
Init ==
    /\ nodeEnv \in {"unset", "production"}
    /\ files = ShippedFiles
    /\ pc = "start"
    /\ environment = "none"
    /\ config = NullConfig
    /\ stack = <<>>
    /\ toMount = Capabilities
    /\ prefixOf = PathPrefix
    /\ routeFiles = ShippedRoutes
    /\ flagAtMount = [c \in CapabilityNames |-> "unevaluated"]
    /\ last = Event("none")
    /\ StoreIdle
    /\ PageIdle

----------------------------------------------------------------------------
(* Startup path of server.js *)

\* const NODE_ENV = process.env.NODE_ENV || 'stage';
\* new FeatureFlagService(NODE_ENV); core routes; base task router
Construct ==
    /\ pc = "start"
    /\ LET env == IF nodeEnv = "unset" THEN "stage" ELSE nodeEnv
       IN  /\ environment' = env
           /\ config' = loadConfiguration(env, files)
    /\ stack' = CoreStack
    /\ pc' = "mounting"
    /\ last' = [Event("construct") EXCEPT
                   !.text = configFileName(IF nodeEnv = "unset" THEN "stage"
                                           ELSE nodeEnv)]
    /\ UNCHANGED <<nodeEnv, files, toMount, prefixOf, routeFiles, flagAtMount>>
    /\ UNCHANGED page
    /\ UNCHANGED store

\* one step of the mount pass: the next capability is evaluated and, when
\* its router is returned, bound
MountNext ==
    /\ pc = "mounting"
    /\ toMount # <<>>
    /\ LET c == Head(toMount)
       IN  /\ flagAtMount' =
                [flagAtMount EXCEPT ![c] =
                    IF flagAtMount[c] # "unevaluated" THEN "evaluated again"
                    ELSE IF isEnabled(config, c) THEN "enabled" ELSE "disabled"]
           /\ stack' = MountOne(stack, config, c, prefixOf[c])
           /\ last' = [Event("mount") EXCEPT
                          !.arg = c, !.text = getFeatureRouter(config, c)]
    /\ toMount' = Tail(toMount)
    /\ UNCHANGED <<nodeEnv, files, pc, service, prefixOf, routeFiles>>
    /\ UNCHANGED page
    /\ UNCHANGED store

\* a startup path that registers the 404 handler and goes on to listen
\* without waiting for the mount pass to finish
RegisterFallback_Early ==
    /\ pc = "mounting"
    /\ stack' = Append(stack, FallbackLayer)
    /\ pc' = "ready"
    /\ last' = Event("fallback")
    /\ UNCHANGED <<nodeEnv, files, service, toMount, prefixOf, routeFiles, flagAtMount>>
    /\ UNCHANGED page
    /\ UNCHANGED store

\* the 404 handler, registered after the mount pass
RegisterFallback ==
    /\ pc = "mounting"
    /\ toMount = <<>>
    /\ stack' = Append(stack, FallbackLayer)
    /\ pc' = "ready"
    /\ last' = Event("fallback")
    /\ UNCHANGED <<nodeEnv, files, service, toMount, prefixOf, routeFiles, flagAtMount>>
    /\ UNCHANGED page
    /\ UNCHANGED store

\* app.listen(PORT, callback): the callback calls getEnabledFeatures(), and
\* an exception thrown there is uncaught and ends the process
Listen ==
    /\ pc = "ready"
    /\ LET enabledFeatures == getEnabledFeatures(config)
       IN  /\ pc' = IF enabledFeatures.throws THEN "crashed" ELSE "listening"
           /\ last' = [Event("listen") EXCEPT
                          !.throws = enabledFeatures.throws,
                          !.names = enabledFeatures.value]
    /\ UNCHANGED <<nodeEnv, files, service, stack, toMount, prefixOf, routeFiles, flagAtMount>>
    /\ UNCHANGED page
    /\ UNCHANGED store

----------------------------------------------------------------------------
(* Request handlers of server.js *)

\* a request answered by a handler other than the reload endpoint
Respond(req, handler, status, body) ==
    /\ pc = "listening"
    /\ Dispatch(stack, req) = handler
    /\ last' = [Event("request") EXCEPT
                   !.req = req, !.handler = handler, !.status = status,
                   !.body = body]
    /\ UNCHANGED <<files, service, host>>
    /\ UNCHANGED page
    /\ UNCHANGED store

\* GET /api/health
GetHealth(req) == Respond(req, "health", 200, NullConfig)

\* GET /api/feature-flags : res.json(featureFlags.getConfig())
\* when it directly follows a reload, the record also keeps what the reload
\* answered
GetFeatureFlags(req) ==
    /\ pc = "listening"
    /\ Dispatch(stack, req) = "feature-flags"
    /\ last' = [Event("request") EXCEPT
                   !.req = req, !.handler = "feature-flags", !.status = 200,
                   !.body = getConfig(config),
                   !.again = (last.handler = "reload"),
                   !.before = IF last.handler = "reload" THEN last.body
                              ELSE NullConfig]
    /\ UNCHANGED <<files, service, host>>
    /\ UNCHANGED page
    /\ UNCHANGED store

\* a reload endpoint that keeps the previous configuration when the source
\* is missing or unparsable
PostReload_KeepPrevious(req) ==
    /\ pc = "listening"
    /\ Dispatch(stack, req) = "reload"
    /\ config' = IF files[configFileName(environment)].kind \in {"missing", "unparsable"}
                 THEN config
                 ELSE loadConfiguration(environment, files)
    /\ last' = [Event("request") EXCEPT
                   !.req = req, !.handler = "reload", !.status = 200,
                   !.body = getConfig(config'),
                   !.again = (last.handler = "reload"),
                   !.before = IF last.handler = "reload" THEN config
                              ELSE NullConfig]
    /\ UNCHANGED <<files, environment, host>>
    /\ UNCHANGED page
    /\ UNCHANGED store

\* a reload endpoint that re-runs the mount pass after reloading
PostReload_Remount(req) ==
    /\ pc = "listening"
    /\ Dispatch(stack, req) = "reload"
    /\ config' = loadConfiguration(environment, files)
    /\ stack' = Append(MountAll(CoreStack, config', Capabilities, prefixOf),
                       FallbackLayer)
    /\ last' = [Event("request") EXCEPT
                   !.req = req, !.handler = "reload", !.status = 200,
                   !.body = getConfig(config'),
                   !.again = (last.handler = "reload"),
                   !.before = IF last.handler = "reload" THEN config
                              ELSE NullConfig]
    /\ UNCHANGED <<files, environment, nodeEnv, pc, toMount, prefixOf, routeFiles, flagAtMount>>
    /\ UNCHANGED page
    /\ UNCHANGED store

\* a reload endpoint that only drops the cached configuration when one is
\* held, and loads when none is
PostReload_DropCache(req) ==
    /\ pc = "listening"
    /\ Dispatch(stack, req) = "reload"
    /\ config' = IF config.kind = "null"
                 THEN loadConfiguration(environment, files)
                 ELSE NullConfig
    /\ last' = [Event("request") EXCEPT
                   !.req = req, !.handler = "reload", !.status = 200,
                   !.body = getConfig(config'),
                   !.again = (last.handler = "reload"),
                   !.before = IF last.handler = "reload" THEN config
                              ELSE NullConfig]
    /\ UNCHANGED <<files, environment, host>>
    /\ UNCHANGED page
    /\ UNCHANGED store

\* a reload endpoint that builds its response before it reloads
PostReload_RespondThenReload(req) ==
    /\ pc = "listening"
    /\ Dispatch(stack, req) = "reload"
    /\ config' = loadConfiguration(environment, files)
    /\ last' = [Event("request") EXCEPT
                   !.req = req, !.handler = "reload", !.status = 200,
                   !.body = getConfig(config),
                   !.again = (last.handler = "reload"),
                   !.before = IF last.handler = "reload" THEN config
                              ELSE NullConfig]
    /\ UNCHANGED <<files, environment, host>>
    /\ UNCHANGED page
    /\ UNCHANGED store

\* a reload endpoint after which the service runs as the environment the
\* reloaded document names
PostReload_AdoptDocumentEnvironment(req) ==
    /\ pc = "listening"
    /\ Dispatch(stack, req) = "reload"
    /\ config' = loadConfiguration(environment, files)
    /\ environment' = IF config'.environment = "undefined" THEN environment
                      ELSE config'.environment
    /\ last' = [Event("request") EXCEPT
                   !.req = req, !.handler = "reload", !.status = 200,
                   !.body = getConfig(config'),
                   !.again = (last.handler = "reload"),
                   !.before = IF last.handler = "reload" THEN config
                              ELSE NullConfig]
    /\ UNCHANGED <<files, host>>
    /\ UNCHANGED page
    /\ UNCHANGED store

\* POST /api/feature-flags/reload : featureFlags.reload(), then
\* res.json({ config: featureFlags.getConfig() })
PostReload(req) ==
    /\ pc = "listening"
    /\ Dispatch(stack, req) = "reload"
    /\ config' = loadConfiguration(environment, files)
    /\ last' = [Event("request") EXCEPT
                   !.req = req, !.handler = "reload", !.status = 200,
                   !.body = getConfig(config'),
                   !.again = (last.handler = "reload"),
                   !.before = IF last.handler = "reload" THEN config
                              ELSE NullConfig]
    /\ UNCHANGED <<files, environment, host>>
    /\ UNCHANGED page
    /\ UNCHANGED store

\* a request answered by a mounted router: the task router or a capability
RouterRequest(req) ==
    \E group \in CapabilityNames \cup {"tasks"} : Respond(req, group, 200, NullConfig)

\* the catch-all: res.status(404).json({ error: 'Not Found', ... })
NotFound(req) == Respond(req, "notfound", 404, NullConfig)

----------------------------------------------------------------------------
(* Resolver operations called on the running service *)

\* every call records, besides its result, the configuration and the
\* environment the service held when it was called

IsEnabledCall(n) ==
    /\ pc = "listening"
    /\ last' = [Event("isEnabled") EXCEPT
                   !.arg = n, !.answer = isEnabled(config, n),
                   !.before = config, !.env = environment]
    /\ UNCHANGED <<files, service, host>>
    /\ UNCHANGED page
    /\ UNCHANGED store

\* getFeatureInfo that files a disabled record under a name it did not find
GetFeatureInfoCall_CreatesRecord(n) ==
    /\ pc = "listening"
    /\ last' = [Event("getFeatureInfo") EXCEPT
                   !.arg = n, !.info = getFeatureInfo(config, n),
                   !.before = config, !.env = environment]
    /\ config' = IF ~NotLoaded(config) /\ config.features[n].kind = "absent"
                 THEN [config EXCEPT !.features[n] = FlagRecord("false", "undefined")]
                 ELSE config
    /\ UNCHANGED <<files, environment, host>>
    /\ UNCHANGED page
    /\ UNCHANGED store

GetFeatureInfoCall(n) ==
    /\ pc = "listening"
    /\ last' = [Event("getFeatureInfo") EXCEPT
                   !.arg = n, !.info = getFeatureInfo(config, n),
                   !.before = config, !.env = environment]
    /\ UNCHANGED <<files, service, host>>
    /\ UNCHANGED page
    /\ UNCHANGED store

GetEnabledFeaturesCall ==
    /\ pc = "listening"
    /\ LET r == getEnabledFeatures(config)
       IN  last' = [Event("getEnabledFeatures") EXCEPT
                       !.throws = r.throws, !.names = r.value,
                       !.before = config, !.env = environment]
    /\ UNCHANGED <<files, service, host>>
    /\ UNCHANGED page
    /\ UNCHANGED store

GetAllFeaturesCall ==
    /\ pc = "listening"
    /\ last' = [Event("getAllFeatures") EXCEPT
                   !.body = Document(TRUE, getAllFeatures(config)),
                   !.before = config, !.env = environment]
    /\ UNCHANGED <<files, service, host>>
    /\ UNCHANGED page
    /\ UNCHANGED store

GetEnvironmentCall ==
    /\ pc = "listening"
    /\ last' = [Event("getEnvironment") EXCEPT
                   !.text = getEnvironment(environment),
                   !.before = config, !.env = environment]
    /\ UNCHANGED <<files, service, host>>
    /\ UNCHANGED page
    /\ UNCHANGED store

GetConfigCall ==
    /\ pc = "listening"
    /\ last' = [Event("getConfig") EXCEPT
                   !.body = getConfig(config),
                   !.before = config, !.env = environment]
    /\ UNCHANGED <<files, service, host>>
    /\ UNCHANGED page
    /\ UNCHANGED store

----------------------------------------------------------------------------
(* The operator edits the environment's manifest file on disk, before the *)
(* process starts or while it runs; the other environment's file stays as *)
(* shipped                                                                 *)

EditSource(doc) ==
    /\ pc # "crashed"
    /\ files[LoadedFile] # doc
    /\ files' = [files EXCEPT ![LoadedFile] = doc]
    /\ last' = [Event("edit") EXCEPT !.arg = LoadedFile]
    /\ UNCHANGED <<service, host>>
    /\ UNCHANGED page
    /\ UNCHANGED store

----------------------------------------------------------------------------

Next ==
    \/ Construct
    \/ MountNext
    \/ RegisterFallback
    \/ Listen
    \/ \E req \in Requests : GetHealth(req)
    \/ \E req \in Requests : GetFeatureFlags(req)
    \/ \E req \in Requests : PostReload(req)
    \/ \E req \in Requests : RouterRequest(req)
    \/ \E req \in Requests : NotFound(req)
    \/ \E n \in FlagNames : IsEnabledCall(n)
    \/ \E n \in FlagNames : GetFeatureInfoCall(n)
    \/ GetEnabledFeaturesCall
    \/ \E doc \in Documents : EditSource(doc)

Spec == Init /\ [][Next]_vars

----------------------------------------------------------------------------
(* The mount strategy on its own: the manifest, the order in which the    *)
(* capabilities are evaluated and the prefix each is given are inputs      *)

RECURSIVE SeqToSet(_)
SeqToSet(q) == IF q = <<>> THEN {} ELSE {Head(q)} \cup SeqToSet(Tail(q))

\* every order in which the capabilities can be evaluated
MountOrders ==
    {o \in [1..Len(Capabilities) -> CapabilityNames] : SeqToSet(o) = CapabilityNames}

\* prefixes a capability may be given: the two server.js uses and one that
\* contains both
Prefixes == {<<"api", "search">>, <<"api", "export">>, <<"api">>}

InitMount ==
    /\ nodeEnv = "stage"
    /\ \E doc \in Documents : files = [ShippedFiles EXCEPT ![LoadedFile] = doc]
    /\ pc = "start"
    /\ environment = "none"
    /\ config = NullConfig
    /\ stack = <<>>
    /\ toMount \in MountOrders
    /\ prefixOf \in [CapabilityNames -> Prefixes]
    /\ routeFiles = ShippedRoutes
    /\ flagAtMount = [c \in CapabilityNames |-> "unevaluated"]
    /\ last = Event("none")
    /\ StoreIdle
    /\ PageIdle

NextMount ==
    \/ Construct
    \/ MountNext
    \/ RegisterFallback
    \/ Listen
    \/ \E req \in Requests : GetHealth(req)
    \/ \E req \in Requests : GetFeatureFlags(req)
    \/ \E req \in Requests : PostReload(req)
    \/ \E req \in Requests : RouterRequest(req)
    \/ \E req \in Requests : NotFound(req)

SpecMount == InitMount /\ [][NextMount]_vars

----------------------------------------------------------------------------
(* The resolver on its own: the started service under every query and     *)
(* under reloads, the manifest being an input                              *)

InitResolver ==
    /\ nodeEnv \in NodeEnvs
    /\ \E doc \in Documents : files = [ShippedFiles EXCEPT ![LoadedFile] = doc]
    /\ pc = "start"
    /\ environment = "none"
    /\ config = NullConfig
    /\ stack = <<>>
    /\ toMount = Capabilities
    /\ prefixOf = PathPrefix
    /\ routeFiles \in RouteFileSets
    /\ flagAtMount = [c \in CapabilityNames |-> "unevaluated"]
    /\ last = Event("none")
    /\ StoreIdle
    /\ PageIdle

NextResolver ==
    \/ Construct
    \/ MountNext
    \/ RegisterFallback
    \/ Listen
    \/ \E req \in Requests : PostReload(req)
    \/ \E n \in FlagNames : IsEnabledCall(n)
    \/ \E n \in FlagNames : GetFeatureInfoCall(n)
    \/ GetEnabledFeaturesCall
    \/ GetAllFeaturesCall
    \/ GetEnvironmentCall
    \/ GetConfigCall

SpecResolver == InitResolver /\ [][NextResolver]_vars

----------------------------------------------------------------------------
(* The web page on its own: config/features.json is a static artifact, so *)
(* every fetch of one page view has the same outcome                       *)

\* the API process is not part of the run
ServerIdle ==
    /\ nodeEnv = "unset"
    /\ files = ShippedFiles
    /\ pc = "start"
    /\ environment = "none"
    /\ config = NullConfig
    /\ stack = <<>>
    /\ toMount = Capabilities
    /\ prefixOf = PathPrefix
    /\ routeFiles = ShippedRoutes
    /\ flagAtMount = [c \in CapabilityNames |-> "unevaluated"]
    /\ last = Event("none")
    /\ StoreIdle

InitPage ==
    /\ ServerIdle
    /\ published \in Fetches
    /\ pathname \in Pathnames
    /\ windowFlags = NewWindowFlags
    /\ dom = [tag \in Tags |-> PlainElement]
    /\ appFlags = NewAppFlags
    /\ ClientIdle

server == <<nodeEnv, files, pc, environment, config, stack, toMount, prefixOf, routeFiles,
            flagAtMount, last, db, deleted, reply>>

\* await window.featureFlags.init()
WindowInit ==
    /\ windowFlags' = window_init(windowFlags, pathname, published)
    /\ UNCHANGED <<published, pathname, dom, appFlags>>
    /\ UNCHANGED client
    /\ UNCHANGED taskClient
    /\ UNCHANGED server

\* window.featureFlags.applyFeatureFlags(), run by the auto-initialisation
\* once init() has settled, or by hand
ApplyFeatureFlags ==
    /\ windowFlags.phase # "constructed"
    /\ dom' = applyFeatureFlags(windowFlags.features, dom)
    /\ windowFlags' = [windowFlags EXCEPT !.phase = "swept"]
    /\ UNCHANGED <<published, pathname, appFlags>>
    /\ UNCHANGED client
    /\ UNCHANGED taskClient
    /\ UNCHANGED server

\* await this.featureFlags.load()
AppLoad ==
    /\ appFlags' = app_load(appFlags, published)
    /\ UNCHANGED <<published, pathname, windowFlags, dom>>
    /\ UNCHANGED client
    /\ UNCHANGED taskClient
    /\ UNCHANGED server

----------------------------------------------------------------------------
(* The App controller of js/app.js *)

\* loadFeatureFlags(): load(), then the badge, the two sections and the
\* info panel; an exception anywhere ends in showFeatureFlagError(), which
\* touches only the info panel.  getEnvironment() is the first thing to
\* throw on a null flags, before any section is updated.
LoadFeatureFlags ==
    /\ LET loaded == app_load(appFlags, published)
       IN  /\ appFlags' = loaded
           /\ sections' =
                 IF loaded.threw \/ app_getEnvironment(loaded.flags).throws
                 THEN sections
                 ELSE [c \in CapabilityNames |->
                          updateFeatureSection(sections[c],
                              app_getFeature(loaded.flags, c).value)]
    /\ UNCHANGED <<published, pathname, windowFlags, dom, call>>
    /\ UNCHANGED taskClient
    /\ UNCHANGED server

\* searchTasks() that sends the search whatever the flag says
SearchTasks_Unguarded ==
    /\ call' = [op |-> "searchTasks", flags |-> appFlags.flags,
                request |-> "POST /api/search", threw |-> FALSE]
    /\ UNCHANGED <<published, pathname, windowFlags, dom, appFlags, sections>>
    /\ UNCHANGED taskClient
    /\ UNCHANGED server

\* searchTasks(): alert and return unless isEnabled('advanced_search');
\* otherwise taskService.searchTasks() posts to /search.  isEnabled throwing
\* rejects the handler before anything is sent.
SearchTasks ==
    /\ LET enabled == app_isEnabled(appFlags.flags, "advanced_search")
       IN  call' = [op |-> "searchTasks", flags |-> appFlags.flags,
                    request |-> IF enabled.throws \/ enabled.value = "false"
                                THEN "none" ELSE "POST /api/search",
                    threw |-> enabled.throws]
    /\ UNCHANGED <<published, pathname, windowFlags, dom, appFlags, sections>>
    /\ UNCHANGED taskClient
    /\ UNCHANGED server

\* exportCSV(): alert and return unless isEnabled('export_csv'); otherwise
\* taskService.exportCSV() opens /export/csv in a new window
ExportCSV ==
    /\ LET enabled == app_isEnabled(appFlags.flags, "export_csv")
       IN  call' = [op |-> "exportCSV", flags |-> appFlags.flags,
                    request |-> IF enabled.throws \/ enabled.value = "false"
                                THEN "none" ELSE "window.open /api/export/csv",
                    threw |-> enabled.throws]
    /\ UNCHANGED <<published, pathname, windowFlags, dom, appFlags, sections>>
    /\ UNCHANGED taskClient
    /\ UNCHANGED server

\* previewCSV(): alert and return unless isEnabled('export_csv'); otherwise
\* taskService.previewCSV() fetches /export/preview
PreviewCSV ==
    /\ LET enabled == app_isEnabled(appFlags.flags, "export_csv")
       IN  call' = [op |-> "previewCSV", flags |-> appFlags.flags,
                    request |-> IF enabled.throws \/ enabled.value = "false"
                                THEN "none" ELSE "GET /api/export/preview",
                    threw |-> enabled.throws]
    /\ UNCHANGED <<published, pathname, windowFlags, dom, appFlags, sections>>
    /\ UNCHANGED taskClient
    /\ UNCHANGED server

NextApp ==
    \/ LoadFeatureFlags
    \/ SearchTasks
    \/ ExportCSV
    \/ PreviewCSV

\* the App controller over one published flags document
SpecApp == InitPage /\ [][NextApp]_vars

\* what a deployment publishes as config/features.json: the stage or the
\* production manifest converted to JSON, or nothing that can be fetched
Releases == {Rejected, Response(TRUE, StageManifest), Response(TRUE, ProdManifest)}

InitRefresh ==
    /\ ServerIdle
    /\ published \in Releases
    /\ pathname = <<>>
    /\ windowFlags = NewWindowFlags
    /\ dom = [tag \in Tags |-> PlainElement]
    /\ appFlags = NewAppFlags
    /\ ClientIdle

\* a deployment replaces config/features.json while the page is open
Publish ==
    /\ published' \in Releases
    /\ UNCHANGED <<pathname, windowFlags, dom, appFlags>>
    /\ UNCHANGED client
    /\ UNCHANGED taskClient
    /\ UNCHANGED server

NextRefresh ==
    \/ Publish
    \/ WindowInit
    \/ ApplyFeatureFlags
    \/ LoadFeatureFlags

\* both clients reloading their flags over successive deployments
SpecRefresh == InitRefresh /\ [][NextRefresh]_vars

----------------------------------------------------------------------------
(* Tasks in the App controller *)

flagClient == <<published, pathname, windowFlags, dom, appFlags, call, sections>>

\* App.loadTasks() is called: taskService.loadTasks() issues its fetch
LoadTasks ==
    /\ loading < MaxInFlight
    /\ loading' = loading + 1
    /\ UNCHANGED <<taskService, posting, completed, post>>
    /\ UNCHANGED flagClient
    /\ UNCHANGED server

\* the fetch of one loadTasks() settles and the call runs to its end
LoadTasksSettles ==
    /\ loading > 0
    /\ \E fetched \in TaskFetches :
          LET done == loadTasks(taskService, fetched)
          IN  /\ taskService' = done.service
              /\ completed' = IF done.isDemo THEN "demo" ELSE "api"
    /\ loading' = loading - 1
    /\ UNCHANGED <<posting, post>>
    /\ UNCHANGED flagClient
    /\ UNCHANGED server

\* App.addTask() up to its await: no title, alert and return; otherwise
\* taskService.addTask(), whose exception ends in an alert
AddTask ==
    /\ posting < MaxInFlight
    /\ \E title \in Titles :
          LET sending == IF title = "" THEN [throws |-> FALSE, sent |-> FALSE]
                         ELSE addTask(taskService, title)
          IN  /\ post' = [op |-> "App.addTask", title |-> title,
                          sent |-> sending.sent, after |-> completed]
              /\ posting' = IF sending.sent THEN posting + 1 ELSE posting
    /\ UNCHANGED <<taskService, loading, completed>>
    /\ UNCHANGED flagClient
    /\ UNCHANGED server

\* the POST of App.addTask is answered: on success the form is cleared and
\* the tasks are loaded again, otherwise an alert
AddTaskSettles ==
    /\ posting > 0
    /\ posting' = posting - 1
    /\ \E success \in BOOLEAN :
          IF success
          THEN loading < MaxInFlight /\ loading' = loading + 1
          ELSE loading' = loading
    /\ UNCHANGED <<taskService, completed, post>>
    /\ UNCHANGED flagClient
    /\ UNCHANGED server

\* taskService.addTask() called by other code with any title
ServiceAddTask ==
    /\ \E title \in Titles :
          post' = [op |-> "addTask", title |-> title,
                   sent |-> addTask(taskService, title).sent, after |-> completed]
    /\ UNCHANGED <<taskService, loading, posting, completed>>
    /\ UNCHANGED flagClient
    /\ UNCHANGED server

NextTasks ==
    \/ LoadTasks
    \/ LoadTasksSettles
    \/ AddTask
    \/ AddTaskSettles
    \/ ServiceAddTask

\* the task client against an API that comes and goes
InitTasks ==
    /\ ServerIdle
    /\ PageIdle

SpecTasks == InitTasks /\ [][NextTasks]_vars

----------------------------------------------------------------------------
(* The task routes of api/routes/tasks.js over db.json *)

\* db.tasks.findIndex(t => t.id === id), 0 standing for -1
FindIndex(tasks, id) ==
    IF \E i \in 1..Len(tasks) : tasks[i].id = id
    THEN CHOOSE i \in 1..Len(tasks) :
            /\ tasks[i].id = id
            /\ \A j \in 1..(i - 1) : tasks[j].id # id
    ELSE 0

\* bodies of a PUT: any title or none, any id or none (0)
Updates == [id : 0..MaxNextId, title : Titles \cup {"undefined"}]

\* a store whose ids are distinct and all below nextId
WellFormed(d) ==
    /\ \A i, j \in 1..Len(d.tasks) : i # j => d.tasks[i].id # d.tasks[j].id
    /\ \A i \in 1..Len(d.tasks) : d.tasks[i].id \in 1..(d.nextId - 1)

InitStore ==
    /\ nodeEnv = "unset"
    /\ files = ShippedFiles
    /\ pc = "start"
    /\ environment = "none"
    /\ config = NullConfig
    /\ stack = <<>>
    /\ toMount = Capabilities
    /\ prefixOf = PathPrefix
    /\ routeFiles = ShippedRoutes
    /\ flagAtMount = [c \in CapabilityNames |-> "unevaluated"]
    /\ last = Event("none")
    /\ PageIdle
    /\ db \in {d \in [tasks : UNION {[1..k -> [id : 1..MaxNextId, title : Titles]] :
                                        k \in 0..2},
                       nextId : 1..(MaxNextId - 1)] : WellFormed(d)}
    /\ deleted = {}
    /\ reply = [op |-> "none", id |-> 0, status |-> 0, before |-> db]

\* POST / : 400 without a title; otherwise the task gets id nextId, is
\* appended, nextId is incremented and the store written
PostTask ==
    /\ \E title \in Titles :
          IF title = ""
          THEN /\ db' = db
               /\ reply' = [op |-> "POST", id |-> 0, status |-> 400, before |-> db]
          ELSE /\ db.nextId < MaxNextId
               /\ db' = [tasks |-> Append(db.tasks, [id |-> db.nextId, title |-> title]),
                         nextId |-> db.nextId + 1]
               /\ reply' = [op |-> "POST", id |-> db.nextId, status |-> 201,
                            before |-> db]
    /\ UNCHANGED deleted
    /\ UNCHANGED <<nodeEnv, files, pc, environment, config, stack, toMount, prefixOf,
                   routeFiles, flagAtMount, last>>
    /\ UNCHANGED page

\* PUT /:id where the fields of the body are spread last
PutTask_BodyOverridesId ==
    /\ \E id \in 1..MaxNextId, updates \in Updates :
          LET taskIndex == FindIndex(db.tasks, id)
          IN  IF taskIndex = 0
              THEN /\ db' = db
                   /\ reply' = [op |-> "PUT", id |-> id, status |-> 404, before |-> db]
              ELSE LET old == db.tasks[taskIndex]
                       spread == [id |-> IF updates.id = 0 THEN old.id ELSE updates.id,
                                  title |-> IF updates.title = "undefined"
                                            THEN old.title ELSE updates.title]
                   IN  /\ db' = [db EXCEPT !.tasks[taskIndex] = spread]
                       /\ reply' = [op |-> "PUT", id |-> id, status |-> 200,
                                    before |-> db]
    /\ UNCHANGED deleted
    /\ UNCHANGED <<nodeEnv, files, pc, environment, config, stack, toMount, prefixOf,
                   routeFiles, flagAtMount, last>>
    /\ UNCHANGED page

\* PUT /:id : 404 for an unknown id; otherwise the task becomes
\* { ...task, ...updates, id: task.id, updated_at } and the store is written
PutTask ==
    /\ \E id \in 1..MaxNextId, updates \in Updates :
          LET taskIndex == FindIndex(db.tasks, id)
          IN  IF taskIndex = 0
              THEN /\ db' = db
                   /\ reply' = [op |-> "PUT", id |-> id, status |-> 404, before |-> db]
              ELSE LET old == db.tasks[taskIndex]
                       spread == [id |-> IF updates.id = 0 THEN old.id ELSE updates.id,
                                  title |-> IF updates.title = "undefined"
                                            THEN old.title ELSE updates.title]
                   IN  /\ db' = [db EXCEPT !.tasks[taskIndex] =
                                              [spread EXCEPT !.id = old.id]]
                       /\ reply' = [op |-> "PUT", id |-> id, status |-> 200,
                                    before |-> db]
    /\ UNCHANGED deleted
    /\ UNCHANGED <<nodeEnv, files, pc, environment, config, stack, toMount, prefixOf,
                   routeFiles, flagAtMount, last>>
    /\ UNCHANGED page

\* DELETE /:id : 404 for an unknown id; otherwise the task is spliced out
\* and the store written
DeleteTask ==
    /\ \E id \in 1..MaxNextId :
          LET taskIndex == FindIndex(db.tasks, id)
          IN  IF taskIndex = 0
              THEN /\ db' = db
                   /\ deleted' = deleted
                   /\ reply' = [op |-> "DELETE", id |-> id, status |-> 404,
                                before |-> db]
              ELSE /\ db' = [db EXCEPT !.tasks =
                                SubSeq(db.tasks, 1, taskIndex - 1)
                                    \o SubSeq(db.tasks, taskIndex + 1, Len(db.tasks))]
                   /\ deleted' = deleted \cup {id}
                   /\ reply' = [op |-> "DELETE", id |-> id, status |-> 200,
                                before |-> db]
    /\ UNCHANGED <<nodeEnv, files, pc, environment, config, stack, toMount, prefixOf,
                   routeFiles, flagAtMount, last>>
    /\ UNCHANGED page

NextStore ==
    \/ PostTask
    \/ PutTask
    \/ DeleteTask

\* create, update and delete requests on a well-formed store
SpecStore == InitStore /\ [][NextStore]_vars

NextPage ==
    \/ WindowInit
    \/ ApplyFeatureFlags
    \/ AppLoad

SpecPage == InitPage /\ [][NextPage]_vars

----------------------------------------------------------------------------
(* Properties *)

\* the source is missing or does not parse
Broken(doc) == doc.kind \in {"missing", "unparsable"}

\* the manifest does not define the name
Undefined(cfg, n) == NotLoaded(cfg) \/ cfg.features[n].kind = "absent"

\* a reload request is being served
ReloadStep == \E req \in Requests : PostReload(req)

\* the answers isEnabled gives for every name
Answers_isEnabled(cfg) == [n \in FlagNames |-> isEnabled(cfg, n)]

\* C1: isEnabled(n) is true exactly when n is a key of the loaded manifest's
\* features and the record's enabled field is boolean true; in every other
\* case (name missing, enabled false, enabled non-boolean, record null,
\* manifest not loaded) it is false.
C1_IsEnabledIffEnabledTrue ==
    /\ \A n \in FlagNames :
          isEnabled(config, n) <=>
              /\ config.kind = "object"
              /\ config.hasFeatures
              /\ n \in Keys(config.features)
              /\ config.features[n].enabled = "true"
    /\ last.op = "isEnabled" =>
          (last.answer <=>
              /\ config.kind = "object"
              /\ config.hasFeatures
              /\ last.arg \in Keys(config.features)
              /\ config.features[last.arg].enabled = "true")

\* isEnabled has been asked about an enabled flag, and about a flag whose
\* enabled field is not a boolean
C1_Witness ==
    /\ last.op = "isEnabled"
    /\ last.answer
    /\ \E n \in FlagNames :
          ~Undefined(config, n) /\ config.features[n].enabled = "'yes'"

\* C2 as stated: a reload against a missing or unparsable source keeps the
\* previous state; every flag enabled before is still enabled and
\* getEnabledFeatures() is unchanged.
C2_ReloadKeepsStateOnFailure ==
    [][(ReloadStep /\ Broken(files[LoadedFile])) =>
          /\ \A n \in FlagNames : isEnabled(config, n) => isEnabled(config', n)
          /\ getEnabledFeatures(config') = getEnabledFeatures(config)]_vars

\* C2 amended: a reload against a missing or unparsable source replaces the
\* state by the empty manifest; afterwards no flag is enabled and
\* getEnabledFeatures() is empty.
C2_ReloadFailsSafeEmpty ==
    (last.handler = "reload" /\ Broken(files[LoadedFile])) =>
        /\ config = EmptyConfig
        /\ last.body = EmptyConfig
        /\ \A n \in FlagNames : ~isEnabled(config, n)
        /\ getEnabledFeatures(config) = [throws |-> FALSE, value |-> {}]

\* a working manifest with export_csv enabled was loaded at startup, and a
\* reload has since run against a broken source
C2_Witness ==
    /\ last.handler = "reload"
    /\ Broken(files[LoadedFile])
    /\ flagAtMount["export_csv"] = "enabled"

\* C3: when the source is missing or unparsable at construction, the
\* constructor returns (startup goes on), the state is the empty manifest,
\* getEnabledFeatures() is empty and isEnabled is false for every name.
C3_ConstructFailsSafe ==
    (last.op = "construct" /\ Broken(files[LoadedFile])) =>
        /\ pc = "mounting"
        /\ getConfig(config) = EmptyConfig
        /\ getEnabledFeatures(config) = [throws |-> FALSE, value |-> {}]
        /\ \A n \in FlagNames : ~isEnabled(config, n)

\* the service has been constructed over a missing manifest file
C3_Witness ==
    /\ last.op = "construct"
    /\ files[LoadedFile].kind = "missing"

BootStack(flags) ==
    LET bind(st, c) == IF flags[c] = "enabled"
                       THEN Append(st, UseLayer(PathPrefix[c], c)) ELSE st
    IN  Append(bind(bind(CoreStack, Capabilities[1]), Capabilities[2]),
               FallbackLayer)

Overlapping(prefixes) ==
    \E a, b \in CapabilityNames :
        a # b /\ IsPrefix(prefixes[a], prefixes[b])

C7_MountOrderIndependent ==
    pc \in {"ready", "listening"} =>
        /\ BoundPrefixes(stack) =
              {prefixOf[c] : c \in {d \in CapabilityNames : flagAtMount[d] = "enabled"}}
        /\ \A o \in MountOrders :
              LET other == Append(MountAll(CoreStack, config, o, prefixOf),
                                  FallbackLayer)
              IN  /\ BoundPrefixes(other) = BoundPrefixes(stack)
                  /\ prefixOf = PathPrefix =>
                        \A req \in Requests :
                            Dispatch(other, req) = Dispatch(stack, req)

\* both capabilities are mounted at the prefixes of server.js, export_csv
\* before advanced_search, and a request has reached advanced_search
C7_Witness ==
    /\ pc = "listening"
    /\ prefixOf = PathPrefix
    /\ \E i, j \in 1..Len(stack) :
          /\ i < j
          /\ stack[i].handler = "export_csv"
          /\ stack[j].handler = "advanced_search"
    /\ last.op = "request"
    /\ last.handler = "advanced_search"

\* the values this.config can hold once loading has returned: the
\* fail-safe configuration or a whole parsed document
CompleteManifests ==
    {EmptyConfig, StageManifest, ProdManifest}
        \cup {d \in Documents : d.kind = "object"}

\* C8: once the service is constructed, every read a handler makes
\* (getConfig in the flag and reload endpoints, isEnabled, getFeatureInfo,
\* getEnabledFeatures) returns the answer of one complete manifest, the one
\* held since the last load; it is never null and never part of a document.
C8_ReadsSeeCompleteManifest ==
    pc # "start" =>
        /\ config \in CompleteManifests
        /\ last.handler \in {"feature-flags", "reload"} => last.body = config
        /\ last.op = "isEnabled" => last.answer = isEnabled(config, last.arg)
        /\ last.op = "getFeatureInfo" => last.info = getFeatureInfo(config, last.arg)
        /\ last.op = "getEnabledFeatures" =>
              /\ last.names = getEnabledFeatures(config).value
              /\ last.throws = getEnabledFeatures(config).throws

\* a flag endpoint request has been answered after a reload changed a flag
\* that was enabled at startup
C8_Witness ==
    /\ last.handler = "feature-flags"
    /\ last.body = config
    /\ \E c \in CapabilityNames :
          flagAtMount[c] = "enabled" /\ ~isEnabled(config, c)

\* C9: a reload that directly follows a reload, the source unchanged in
\* between, leaves the state as the first one left it: same configuration,
\* same getEnabledFeatures(), same isEnabled answers.
C9_ReloadIdempotent ==
    (last.handler = "reload" /\ last.again) =>
        /\ config = last.before
        /\ getEnabledFeatures(config) = getEnabledFeatures(last.before)
        /\ Answers_isEnabled(config) = Answers_isEnabled(last.before)

\* two reloads have run in succession over a manifest with an enabled flag
C9_Witness ==
    /\ last.handler = "reload"
    /\ last.again
    /\ getEnabledFeatures(config).value # {}

\* C10: asking for a name the manifest does not define returns false from
\* isEnabled and null from getFeatureInfo, without an exception.
C10_UndefinedNameIsFalseAndNull ==
    /\ (last.op = "isEnabled" /\ Undefined(config, last.arg)) =>
          (~last.answer /\ ~last.throws)
    /\ (last.op = "getFeatureInfo" /\ Undefined(config, last.arg)) =>
          (last.info = NullRec /\ ~last.throws)

----------------------------------------------------------------------------

\* the manifest file the service reads, as it is on disk now
Source == files[configFileName(environment)]

\* the service has just loaded: the constructor or a reload was the last
\* operation, so the file is as the load read it
JustLoaded == last.op = "construct" \/ last.handler = "reload"

\* the source parses to a document with a features map
Parsable(doc) == doc.kind = "object" /\ doc.hasFeatures

\* a record whose enabled field is not a boolean
Malformed(r) == r.kind = "object" /\ ~Regular(r)

\* C11: no content of the flag source crashes the host process:
\* construction and every resolver operation the host invokes during startup
\* and request handling return without throwing.
C11_NoSourceCrashesHost ==
    /\ pc # "crashed"
    /\ last.op \in {"construct", "mount", "listen", "request"} => ~last.throws

\* C12 as stated: a source that parses but holds a malformed record is
\* treated as a failed load, and the state is the empty manifest.
C12_MalformedRecordEmptiesManifest ==
    (JustLoaded /\ Parsable(Source)
        /\ \E n \in CapabilityNames : Malformed(Source.features[n])) =>
        /\ config = EmptyConfig
        /\ getAllFeatures(config) = NoFeatures

\* C12: a source that parses to a document with a features map is loaded as
\* it is, whatever its records are: the state is the parsed document,
\* getAllFeatures() returns its records, the malformed one included, a flag
\* whose enabled is not boolean true is reported disabled and the other
\* flags of the source are reported by their own enabled value.
C12_MalformedRecordIsLoaded ==
    (JustLoaded /\ Parsable(Source)) =>
        /\ config = Source
        /\ getAllFeatures(config) = Source.features
        /\ \A n \in CapabilityNames :
              isEnabled(config, n) <=> Source.features[n].enabled = "true"

\* a reload has read a source with one malformed record and one enabled flag
C12_Witness ==
    /\ last.handler = "reload"
    /\ Parsable(Source)
    /\ \E n, m \in CapabilityNames :
          /\ Malformed(Source.features[n])
          /\ Source.features[m].enabled = "true"
          /\ getAllFeatures(config)[n] = Source.features[n]
          /\ isEnabled(config, m)

----------------------------------------------------------------------------

\* the fetch of config/features.json failed: the network rejected it, the
\* status is not OK, or the body is not JSON
FetchFailed(fetched) ==
    \/ fetched.kind = "rejected"
    \/ ~fetched.ok
    \/ fetched.body.kind = "unparsable"

\* C13: when the fetch of config/features.json fails in any way, init() of
\* the page's manager completes without throwing, isEnabled is false for
\* every flag, and the sweep run afterwards hides every tagged element.
C13_FetchFailureHidesAll ==
    FetchFailed(published) =>
        /\ windowFlags.phase # "constructed" =>
              /\ ~windowFlags.threw
              /\ \A n \in FlagNames : ~window_isEnabled(windowFlags.features, n)
        /\ windowFlags.phase = "swept" =>
              \A tag \in Tags : dom[tag].display = "none"

\* the sweep has run after an error response whose body enables a flag
C13_Witness ==
    /\ published.kind = "response" /\ ~published.ok
    /\ published.body.kind = "object"
    /\ \E n \in CapabilityNames : published.body.features[n].enabled = "true"
    /\ windowFlags.phase = "swept"
    /\ \A tag \in Tags : dom[tag].display = "none"

\* C14: after load() of the module client has finished in any way, the
\* snapshot is all-disabled whenever the fetch failed, and isEnabled never
\* throws for any name.
C14_LoadFallsBackAndNeverThrows ==
    appFlags.phase = "loaded" =>
        /\ FetchFailed(published) =>
              \A n \in FlagNames :
                  FalsyValue(app_isEnabled(appFlags.flags, n).value)
        /\ \A n \in FlagNames : ~app_isEnabled(appFlags.flags, n).throws

\* the manifest a manager holds, read as the server resolver would hold it
AsConfig(features) == Document(TRUE, features)

\* C15: over the same manifest the client managers answer exactly like the
\* server resolver: isEnabled is boolean true only when enabled is exactly
\* true, the enabled list holds the names whose isEnabled is true, and
\* getFeature / getFeatureInfo return the same record.
C15_ClientsMirrorResolver ==
    /\ (appFlags.phase = "loaded" /\ appFlags.flags.kind = "object") =>
          /\ \A n \in FlagNames :
                /\ app_isEnabled(appFlags.flags, n).value =
                       JsBool(isEnabled(appFlags.flags, n))
                /\ app_getFeature(appFlags.flags, n).value =
                       getFeatureInfo(appFlags.flags, n)
          /\ app_getEnabledFeatures(appFlags.flags) =
                 getEnabledFeatures(appFlags.flags)
    /\ windowFlags.phase # "constructed" =>
          LET cfg == AsConfig(windowFlags.features)
          IN  /\ \A n \in FlagNames :
                    /\ window_isEnabled(windowFlags.features, n) = isEnabled(cfg, n)
                    /\ window_getFeatureInfo(windowFlags.features, n) =
                           getFeatureInfo(cfg, n)
              /\ window_getEnabledFeatures(windowFlags.features) =
                     getEnabledFeatures(cfg)
              /\ window_getEnabledFeatures(windowFlags.features).value =
                     {n \in FlagNames : window_isEnabled(windowFlags.features, n)}

----------------------------------------------------------------------------

\* lifecycle tags a record may carry; the tag stands for every field of a
\* record other than enabled (description, owner, status, ...)
Statuses == {"live", "in_development", "deprecated", "undefined"}

\* the manifests that agree with cfg on every flag's enabled value and on
\* which names have a record, and differ from it at most in metadata
MetadataVariants(cfg) ==
    LET records == {n \in FlagNames : cfg.features[n].kind = "object"}
    IN  {[cfg EXCEPT !.features =
              [n \in FlagNames |->
                  IF n \in records
                  THEN [cfg.features[n] EXCEPT !.status = tag[n]]
                  ELSE cfg.features[n]]] :
            tag \in [records -> Statuses]}

\* C16: only the enabled field gates behaviour: a manifest that agrees with
\* the loaded one on every flag's enabled value and differs in metadata
\* gives the same isEnabled answers, the same getEnabledFeatures() and the
\* same set of mounted capability prefixes.
C16_OnlyEnabledGates ==
    pc \in {"ready", "listening", "crashed"} =>
        \A other \in MetadataVariants(config) :
            /\ Answers_isEnabled(other) = Answers_isEnabled(config)
            /\ getEnabledFeatures(other) = getEnabledFeatures(config)
            /\ BoundPrefixes(MountAll(CoreStack, other, Capabilities, prefixOf))
                  = BoundPrefixes(stack)
            /\ Mounted(MountAll(CoreStack, other, Capabilities, prefixOf))
                  = Mounted(stack)

\* a capability tagged live is mounted, and a manifest that tags it
\* in_development with the same enabled value exists
C16_Witness ==
    /\ pc = "listening"
    /\ \E c \in Mounted(stack) :
          /\ config.features[c] = FlagRecord("true", "live")
          /\ \E other \in MetadataVariants(config) :
                /\ other.features[c] = FlagRecord("true", "in_development")
                /\ isEnabled(other, c)

----------------------------------------------------------------------------

\* what one load of the source as it is on disk gives
OneLoad ==
    IF Source.kind \in {"missing", "unparsable", "null"} THEN EmptyConfig
    ELSE Source

\* C17: POST /api/feature-flags/reload performs one reload and answers with
\* the manifest that is current after it; GET /api/feature-flags always
\* answers with the current manifest, and one that directly follows a
\* reload answers with the manifest the reload answered with.
C17_ReloadAnswersCurrentManifest ==
    /\ last.handler = "reload" =>
          /\ config = OneLoad
          /\ last.body = getConfig(config)
    /\ last.handler = "feature-flags" =>
          /\ last.body = getConfig(config)
          /\ last.again => last.body = last.before

\* the source was edited to switch advanced_search on, a reload answered
\* with the edited manifest and the GET after it did too
C17_Witness ==
    /\ nodeEnv = "production"
    /\ last.handler = "feature-flags"
    /\ last.again
    /\ last.body = last.before
    /\ last.body # ProdManifest
    /\ isEnabled(last.body, "advanced_search")

----------------------------------------------------------------------------

\* a request to each core endpoint and each route of the task group, with
\* the handler that has to answer it
CoreRequests ==
    {[req |-> [method |-> "GET", path |-> <<"api", "health">>], handler |-> "health"],
     [req |-> [method |-> "GET", path |-> <<"api", "feature-flags">>],
      handler |-> "feature-flags"],
     [req |-> [method |-> "POST", path |-> <<"api", "feature-flags", "reload">>],
      handler |-> "reload"],
     [req |-> [method |-> "GET", path |-> <<"api", "tasks">>], handler |-> "tasks"],
     [req |-> [method |-> "GET", path |-> <<"api", "tasks", "1">>], handler |-> "tasks"],
     [req |-> [method |-> "POST", path |-> <<"api", "tasks">>], handler |-> "tasks"],
     [req |-> [method |-> "PUT", path |-> <<"api", "tasks", "1">>], handler |-> "tasks"],
     [req |-> [method |-> "DELETE", path |-> <<"api", "tasks", "1">>],
      handler |-> "tasks"]}

\* every core request reaches its handler in this stack
CoreRouted(st) == \A r \in CoreRequests : Dispatch(st, r.req) = r.handler

----------------------------------------------------------------------------

\* the environment server.js constructs the resolver with
StartEnvironment == IF nodeEnv = "unset" THEN "stage" ELSE nodeEnv

\* C19: the environment the resolver was constructed with never changes:
\* getEnvironment() returns it after any sequence of reloads, and every
\* reload reads the source of that environment, whatever environment value
\* the reloaded document carries.
C19_EnvironmentImmutable ==
    pc # "start" =>
        /\ getEnvironment(environment) = StartEnvironment
        /\ last.handler = "reload" =>
              LET doc == files[configFileName(StartEnvironment)]
              IN  config = IF doc.kind \in {"missing", "unparsable", "null"}
                           THEN EmptyConfig ELSE doc

\* a production process has reloaded, twice in a row, a document that names
\* the stage environment
C19_Witness ==
    /\ nodeEnv = "production"
    /\ last.handler = "reload"
    /\ last.again
    /\ config.environment = "stage"
    /\ getEnvironment(environment) = "production"

----------------------------------------------------------------------------

\* C20: getEnabledFeatures() returns exactly the names whose record has
\* enabled true, the same set as { n : isEnabled(n) }, for every loaded
\* manifest, and the empty set when no manifest is loaded.
C20_EnabledFeaturesAreTheEnabledNames ==
    pc # "start" =>
        /\ ~getEnabledFeatures(config).throws
        /\ getEnabledFeatures(config).value =
              {n \in FlagNames : isEnabled(config, n)}
        /\ NotLoaded(config) => getEnabledFeatures(config).value = {}

----------------------------------------------------------------------------

\* the query operations of the resolver
QueryOps ==
    {"isEnabled", "getFeatureInfo", "getAllFeatures", "getEnabledFeatures",
     "getEnvironment", "getConfig"}

\* C21: the query operations are pure reads: whichever of isEnabled,
\* getFeatureInfo, getAllFeatures, getEnabledFeatures, getEnvironment and
\* getConfig has just run, with whatever argument and after whatever calls,
\* the loaded manifest and the environment are the ones held before it.
C21_QueriesArePureReads ==
    last.op \in QueryOps =>
        /\ config = last.before
        /\ environment = last.env

\* getFeatureInfo has just been asked for a name that a loaded manifest with
\* an enabled flag does not define
C21_Witness ==
    /\ last.op = "getFeatureInfo"
    /\ last.arg = "ghost_feature"
    /\ last.info = NullRec
    /\ ~NotLoaded(config)
    /\ getEnabledFeatures(config).value # {}
    /\ config = last.before

----------------------------------------------------------------------------

\* the environment a manifest file belongs to
EnvironmentOfFile(name) ==
    IF name = "features.stage.yml" THEN "stage" ELSE "production"

\* C23: the environment id supplied at startup selects the manifest that is
\* loaded: stage loads features.stage.yml, production loads
\* features.prod.yml, an unset NODE_ENV runs as stage, and getEnvironment()
\* reports the id of the manifest file that was loaded.
C23_EnvironmentSelectsManifest ==
    last.op = "construct" =>
        /\ nodeEnv = "stage" => last.text = "features.stage.yml"
        /\ nodeEnv = "production" => last.text = "features.prod.yml"
        /\ nodeEnv = "unset" =>
              getEnvironment(environment) = "stage" /\ last.text = "features.stage.yml"
        /\ config = OneLoad
        /\ getEnvironment(environment) = EnvironmentOfFile(last.text)

----------------------------------------------------------------------------

\* the manifests that agree with cfg on the record of capability c and
\* differ from it in the record of one other capability
OtherFlagVariants(cfg, c) ==
    {[cfg EXCEPT !.features[d] = r] :
        d \in CapabilityNames \ {c}, r \in RecordShapes}

\* C24: each capability's gating is independent: after the mount pass a
\* capability is bound, at its own prefix, exactly when its own flag was
\* enabled, whatever the other flags are and in whatever order the
\* capabilities were evaluated, and the pass evaluated each flag once.
C24_GatingIsIndependent ==
    pc \in {"ready", "listening", "crashed"} =>
        \A c \in CapabilityNames :
            /\ flagAtMount[c] \in {"enabled", "disabled"}
            /\ c \in Mounted(stack) <=> flagAtMount[c] = "enabled"
            /\ c \in Mounted(stack) =>
                  \E i \in 1..Len(stack) : stack[i] = UseLayer(prefixOf[c], c)
            /\ \A other \in OtherFlagVariants(config, c), o \in MountOrders :
                  c \in Mounted(MountAll(CoreStack, other, o, prefixOf))
                      <=> c \in Mounted(stack)

\* export_csv alone is mounted, and it would be mounted just the same with
\* advanced_search enabled
C24_Witness ==
    /\ pc = "listening"
    /\ Mounted(stack) = {"export_csv"}
    /\ flagAtMount["advanced_search"] = "disabled"
    /\ \E other \in OtherFlagVariants(config, "export_csv") :
          /\ isEnabled(other, "advanced_search")
          /\ "export_csv" \in Mounted(MountAll(CoreStack, other, Capabilities, prefixOf))

----------------------------------------------------------------------------

\* positions of the layers of a kind in a stack
LayersOf(st, kind) == {i \in 1..Len(st) : st[i].kind = kind}

\* C25: the mount pass runs once, on the startup path, and is complete
\* before the server accepts requests: once the startup path is past it
\* every capability has been evaluated once, the 404 handler is the last
\* layer and the only one of its kind, no capability is bound twice, every
\* request is dispatched against that complete stack, and no reload,
\* however many arrive, changes it.
C25_MountPassOnceBeforeListening ==
    /\ pc \in {"ready", "listening", "crashed"} =>
          /\ toMount = <<>>
          /\ \A c \in CapabilityNames : flagAtMount[c] \in {"enabled", "disabled"}
          /\ LayersOf(stack, "fallback") = {Len(stack)}
          /\ \A i, j \in LayersOf(stack, "use") :
                stack[i].handler = stack[j].handler => i = j
          /\ Len(stack) =
                Len(CoreStack) + 1
                  + Cardinality({c \in CapabilityNames : flagAtMount[c] = "enabled"})
    /\ last.op = "request" => pc = "listening"

\* two reloads in a row have switched on a flag that was off at startup,
\* and the stack still has no layer for it
C25_Witness ==
    /\ last.handler = "reload"
    /\ last.again
    /\ \E c \in CapabilityNames :
          /\ flagAtMount[c] = "disabled"
          /\ isEnabled(config, c)
          /\ \A i \in 1..Len(stack) : stack[i].handler # c
    /\ LayersOf(stack, "fallback") = {Len(stack)}

----------------------------------------------------------------------------

\* C26: getFeatureRouter(name) returns a handler group only when
\* isEnabled(name) is true at the time of the call; for a flag that is
\* disabled or unknown, and for a route module that is missing or fails to
\* load, it returns null without throwing, so the mounted capabilities are
\* always among the flags that were enabled at boot.
C26_RouterOnlyWhenEnabled ==
    /\ last.op = "mount" =>
          /\ ~last.throws
          /\ last.text # "null" =>
                (flagAtMount[last.arg] = "enabled" /\ isEnabled(config, last.arg))
          /\ flagAtMount[last.arg] = "disabled" => last.text = "null"
          /\ routeFiles[last.arg] \in {"missing", "throws"} => last.text = "null"
          /\ last.text = "null" => last.arg \notin Mounted(stack)
    /\ \A n \in FlagNames :
          (Undefined(config, n) \/ ~isEnabled(config, n)) =>
              getFeatureRouter(config, n) = "null"
    /\ Mounted(stack) \subseteq {c \in CapabilityNames : flagAtMount[c] = "enabled"}

\* the mount pass has just asked for the router of an enabled capability
\* whose route module is not there, and nothing was bound for it
C26_Witness ==
    /\ last.op = "mount"
    /\ flagAtMount[last.arg] = "enabled"
    /\ routeFiles[last.arg] \in {"missing", "throws"}
    /\ last.text = "null"
    /\ last.arg \notin Mounted(stack)

----------------------------------------------------------------------------

\* C22: after the sweep applyFeatureFlags() every tagged element is visible
\* if and only if isEnabled of its tag is true, and hidden with display none
\* otherwise, also for tags the manifest does not define; running the sweep
\* again with the flags unchanged changes no element's visibility.
C22_SweepShowsExactlyEnabled ==
    windowFlags.phase = "swept" =>
        /\ \A tag \in Tags :
              /\ dom[tag].display \in {"", "none"}
              /\ dom[tag].display = "" <=> window_isEnabled(windowFlags.features, tag)
        /\ \A tag \in Tags :
              applyFeatureFlags(windowFlags.features, dom)[tag].display
                  = dom[tag].display

\* the sweep has run over loaded flags: one tagged element is shown, one
\* with a disabled flag and the one with an undefined tag are hidden
C22_Witness ==
    /\ windowFlags.phase = "swept"
    /\ windowFlags.loaded
    /\ \E a, b \in CapabilityNames :
          /\ dom[a].display = ""
          /\ windowFlags.features[b].enabled = "false"
          /\ dom[b].display = "none"
    /\ dom["ghost_feature"].display = "none"

----------------------------------------------------------------------------

\* the flag an App capability handler is gated by
GateOf(op) == IF op = "searchTasks" THEN "advanced_search" ELSE "export_csv"

\* what a capability handler sends when it goes ahead
RequestOf(op) ==
    IF op = "searchTasks" THEN "POST /api/search"
    ELSE IF op = "exportCSV" THEN "window.open /api/export/csv"
    ELSE "GET /api/export/preview"

\* C27: the App never calls a gated capability whose flag is not enabled in
\* the snapshot the client holds: searchTasks sends nothing to /search and
\* exportCSV and previewCSV send nothing to /export and open no window when
\* isEnabled of the gating flag is false, also before load() has completed
\* and after a failed load.
C27_NoCallWhenNotEnabled ==
    call.op # "none" =>
        LET enabled == app_isEnabled(call.flags, GateOf(call.op))
        IN  /\ call.request \in {"none", RequestOf(call.op)}
            /\ (enabled.throws \/ enabled.value = "false") => call.request = "none"
            /\ call.flags \in {EmptyConfig, FallbackFlags} => call.request = "none"

\* after a failed load the export handler ran on the fallback flags and
\* sent nothing
C27_Witness ==
    /\ call.op = "exportCSV"
    /\ appFlags.phase = "loaded"
    /\ appFlags.threw
    /\ call.flags = FallbackFlags
    /\ call.request = "none"

----------------------------------------------------------------------------

\* the marker class that goes with an isEnabled answer
MarkerFor(enabled) == IF enabled THEN "feature-enabled" ELSE "feature-disabled"

\* C30: after any sequence of flag loads and UI updates every feature-gated
\* element carries exactly one of the marker classes feature-enabled and
\* feature-disabled, the one matching the current isEnabled of its flag:
\* the tagged elements once applyFeatureFlags has run over the current
\* flags, the search and export sections once loadFeatureFlags has loaded
\* the flags and updated them.
C30_ExactlyOneMatchingMarker ==
    /\ windowFlags.phase = "swept" =>
          \A tag \in Tags :
              dom[tag].classes \cap MarkerClasses
                  = {MarkerFor(window_isEnabled(windowFlags.features, tag))}
    /\ (/\ appFlags.phase = "loaded"
        /\ ~appFlags.threw
        /\ ~app_getEnvironment(appFlags.flags).throws) =>
          \A c \in CapabilityNames :
              sections[c] \cap MarkerClasses
                  = {MarkerFor(app_isEnabled(appFlags.flags, c).value # "false")}

----------------------------------------------------------------------------

\* C28: addTask sends a POST only if the title is not empty and the
\* loadTasks() that completed last succeeded against the API; after a
\* loadTasks() that fell back to the demo data every addTask rejects without
\* a request until a later loadTasks() succeeds; apiAvailable always says
\* how the loadTasks() that completed last ended.
C28_PostOnlyAfterSuccessfulLoad ==
    /\ taskService.apiAvailable <=> completed = "api"
    /\ post.op # "none" =>
          /\ post.sent => (post.title # "" /\ post.after = "api")
          /\ post.after \in {"none", "demo"} => ~post.sent

\* a POST sent while the API was available is still unanswered, a later
\* loadTasks() has fallen back to the demo data, and an addTask with a title
\* was then turned away without a POST
C28_Witness ==
    /\ completed = "demo"
    /\ taskService.tasks = "demo"
    /\ ~taskService.apiAvailable
    /\ post.op = "App.addTask"
    /\ post.title # ""
    /\ post.after = "demo"
    /\ ~post.sent
    /\ posting > 0

----------------------------------------------------------------------------

\* the ids of the stored tasks, in the order of the store
IdsOf(d) == [i \in 1..Len(d.tasks) |-> d.tasks[i].id]

\* C29: after any sequence of create, update and delete requests on a
\* well-formed store the stored ids are pairwise distinct and below nextId,
\* the id of a deleted task is never given to a later task, an update
\* leaves the ids as they were whatever its body contains, and a rejected
\* request (no title, unknown id) leaves the store unchanged.
C29_TaskIdsStable ==
    /\ WellFormed(db)
    /\ db.nextId >= reply.before.nextId
    /\ \A i \in 1..Len(db.tasks) : db.tasks[i].id \notin deleted
    /\ reply.op = "POST" /\ reply.status = 201 =>
          /\ reply.id = reply.before.nextId
          /\ reply.id \notin deleted
          /\ IdsOf(db) = Append(IdsOf(reply.before), reply.id)
    /\ reply.op = "PUT" /\ reply.status = 200 =>
          /\ IdsOf(db) = IdsOf(reply.before)
          /\ db.nextId = reply.before.nextId
    /\ reply.status \in {400, 404} => db = reply.before

\* a task was deleted, a task with a later id is stored, and an update that
\* changed its title has been answered 200
C29_Witness ==
    /\ reply.op = "PUT"
    /\ reply.status = 200
    /\ deleted # {}
    /\ \E i \in 1..Len(db.tasks) :
          /\ db.tasks[i].id = reply.id
          /\ \A d \in deleted : d < reply.id
          /\ db.tasks[i].title # reply.before.tasks[i].title

TypeOK ==
    /\ nodeEnv \in NodeEnvs
    /\ files \in [FileNames -> Documents \cup {StageManifest, ProdManifest}]
    /\ pc \in {"start", "mounting", "ready", "listening", "crashed"}
    /\ toMount \in Seq(CapabilityNames)

====
